---- MODULE Spec2Model ----
(***************************************************************************)
(* Structural pattern matching as executed by the match statements of      *)
(* old_code/grammar/examples/Python311_examples.py: analyze_data,          *)
(* process_value and complex_pattern_matching.                             *)
(*                                                                         *)
(* A subject is a Value (scalar, sequence, mapping, record).  A match      *)
(* statement is an ordered list of cases (pattern, guard, body).  One step *)
(* of a call tries one case: it matches the pattern, stores the captured   *)
(* names in the function's local variables, evaluates the guard over the   *)
(* locals and either returns the body's result, raises, or moves on.       *)
(*                                                                         *)
(* Case indices are 1-based here (the k-th case statement of the match).   *)
(***************************************************************************)
EXTENDS Integers, Sequences, FiniteSets, TLC

VARIABLES call, threads, probe

vars == <<call, threads, probe>>

(***************************************************************************)
(* Bounds of the model.                                                    *)
(***************************************************************************)
MaxInt == 1
MaxLen == 3
NumThreads == 2
MaxPats == 2

(***************************************************************************)
(* Value model.  A scalar keeps its runtime kind.  The num field of a      *)
(* float is its magnitude in halves (FloatV(1) is 0.5, FloatV(0) is 0.0),  *)
(* so that floats that equal no int exist; a bool is False = 0, True = 1.  *)
(***************************************************************************)
IntV(n) == [tag |-> "scalar", kind |-> "int", num |-> n, str |-> ""]
FloatV(h) == [tag |-> "scalar", kind |-> "float", num |-> h, str |-> ""]
BoolV(b) == [tag |-> "scalar", kind |-> "bool", num |-> IF b THEN 1 ELSE 0, str |-> ""]
StrV(s) == [tag |-> "scalar", kind |-> "str", num |-> 0, str |-> s]
NoneV == [tag |-> "scalar", kind |-> "none", num |-> 0, str |-> ""]
ListV(xs) == [tag |-> "sequence", items |-> xs]
DictV(f) == [tag |-> "mapping", m |-> f]
RecordV(t, f) == [tag |-> "record", type_tag |-> t, fields |-> f]

EmptyMap == [k \in {} |-> NoneV]

\* Builder.__init__ stores its argument in the attribute value.
Builder(v) == RecordV("Builder", [k \in {"value"} |-> v])

\* The dataclass Point has the fields x and y.
Point(a, b) == RecordV("Point", [k \in {"x", "y"} |-> IF k = "x" THEN a ELSE b])

IsScalar(v) == v.tag = "scalar"
IsSequence(v) == v.tag = "sequence"
IsMapping(v) == v.tag = "mapping"
IsRecord(v) == v.tag = "record"
IsNumeric(v) == IsScalar(v) /\ v.kind \in {"int", "float", "bool"}

\* The magnitude of a numeric value, in halves.
Mag(v) == IF v.kind = "float" THEN v.num ELSE 2 * v.num

\* The runtime type of a value, as type(v) names it.
KindOf(v) ==
  CASE IsScalar(v) -> v.kind
    [] IsSequence(v) -> "list"
    [] IsMapping(v) -> "dict"
    [] OTHER -> v.type_tag

\* A faulty variant of IsInstance: the runtime kind alone, no subclass.
IsInstanceExactKind(v, k) == KindOf(v) = k

\* isinstance(v, k): bool is a subclass of int, nothing else is related.
IsInstance(v, k) == KindOf(v) = k \/ (k = "int" /\ KindOf(v) = "bool")

\* A faulty variant of PyEq: equal only when of the same kind and payload.
PyEqSameKind(a, b) == a = b

RECURSIVE PyEq(_, _)
\* a == b as Python evaluates it: numbers of any kind by magnitude, strings by
\* payload, lists element by element, dicts key by key, dataclass instances of
\* one class field by field; a Builder defines no __eq__ and equals nothing
\* but itself.
PyEq(a, b) ==
  CASE IsNumeric(a) /\ IsNumeric(b) -> Mag(a) = Mag(b)
    [] IsScalar(a) /\ IsScalar(b) -> a.kind = b.kind /\ a.str = b.str /\ ~IsNumeric(a) /\ ~IsNumeric(b)
    [] IsSequence(a) /\ IsSequence(b) ->
         /\ Len(a.items) = Len(b.items)
         /\ \A i \in 1..Len(a.items) : PyEq(a.items[i], b.items[i])
    [] IsMapping(a) /\ IsMapping(b) ->
         /\ DOMAIN a.m = DOMAIN b.m
         /\ \A k \in DOMAIN a.m : PyEq(a.m[k], b.m[k])
    [] IsRecord(a) /\ IsRecord(b) ->
         /\ a.type_tag = "Point" /\ b.type_tag = "Point"
         /\ \A k \in DOMAIN a.fields : PyEq(a.fields[k], b.fields[k])
    [] OTHER -> FALSE

\* bool(v): the truth value of a value.
Truthy(v) ==
  CASE IsNumeric(v) -> v.num # 0
    [] IsScalar(v) -> v.kind = "str" /\ v.str # ""
    [] IsSequence(v) -> Len(v.items) > 0
    [] IsMapping(v) -> DOMAIN v.m # {}
    [] OTHER -> TRUE

(***************************************************************************)
(* Pattern model.                                                          *)
(***************************************************************************)
NoName == ""

Literal(v) == [tag |-> "Literal", value |-> v]
Wildcard == [tag |-> "Wildcard"]
Capture(n) == [tag |-> "Capture", name |-> n]
\* A class pattern of a builtin type: str(name), int(age), list(perms), and
\* str(), int(), float() with no name.
TypedCapture(k, n) == [tag |-> "TypedCapture", kind |-> k, name |-> n]
SequenceP(h, r, t) == [tag |-> "Sequence", head |-> h, rest |-> r, tail |-> t]
\* required and field_patterns are lists of [key, pat] in source order.
MappingP(req, r) == [tag |-> "Mapping", required |-> req, rest |-> r]
RecordP(t, fs) == [tag |-> "Record", type_tag |-> t, field_patterns |-> fs]
Or(alts) == [tag |-> "Or", alternatives |-> alts]
As(p, n) == [tag |-> "As", inner |-> p, name |-> n]
KP(k, p) == [key |-> k, pat |-> p]

NoBindings == [n \in {} |-> NoneV]
Bind(n, v) == [k \in {n} |-> v]
Merge(b1, b2) == [k \in (DOMAIN b1) \cup (DOMAIN b2) |-> IF k \in DOMAIN b2 THEN b2[k] ELSE b1[k]]

Matched(b) == [ok |-> TRUE, b |-> b]
NoMatch == [ok |-> FALSE, b |-> NoBindings]

\* The elements of s at positions from..to (empty when from > to).
Slice(s, from, to) == [i \in 1..(IF to >= from THEN to - from + 1 ELSE 0) |-> s[from + i - 1]]

\* A faulty variant of RestOfMapping: the required keys are not taken out.
RestOfMappingWhole(m, req) == m

\* The pairs of m whose key is not among the keys of req, as a new mapping.
RestOfMapping(m, req) ==
  LET used == {req[i].key : i \in 1..Len(req)}
  IN  [k \in (DOMAIN m) \ used |-> m[k]]

RECURSIVE MatchOrLast(_, _, _)
RECURSIVE MatchPattern(_, _)
RECURSIVE MatchEach(_, _, _)
RECURSIVE MatchKeys(_, _, _)
RECURSIVE MatchOr(_, _, _)

\* The patterns ps[i..] against the values vs[i..], one to one, stopping at the
\* first mismatch.
MatchEach(ps, vs, i) ==
  IF i > Len(ps) THEN Matched(NoBindings)
  ELSE LET r == MatchPattern(ps[i], vs[i])
       IN  IF ~r.ok THEN NoMatch
           ELSE LET rs == MatchEach(ps, vs, i + 1)
                IN  IF rs.ok THEN Matched(Merge(r.b, rs.b)) ELSE NoMatch

\* The [key, pat] pairs req[i..] against the function f (a dict's items or an
\* object's attributes): every key must be present and its pattern match.
MatchKeys(req, f, i) ==
  IF i > Len(req) THEN Matched(NoBindings)
  ELSE IF req[i].key \notin DOMAIN f THEN NoMatch
  ELSE LET r == MatchPattern(req[i].pat, f[req[i].key])
       IN  IF ~r.ok THEN NoMatch
           ELSE LET rs == MatchKeys(req, f, i + 1)
                IN  IF rs.ok THEN Matched(Merge(r.b, rs.b)) ELSE NoMatch

\* A faulty variant of MatchOr: the last alternative that matches wins.
MatchOrLast(alts, v, i) ==
  IF i > Len(alts) THEN NoMatch
  ELSE LET later == MatchOrLast(alts, v, i + 1)
       IN  IF later.ok THEN later ELSE MatchPattern(alts[i], v)

\* The alternatives alts[i..] in listed order: the first that matches.
MatchOr(alts, v, i) ==
  IF i > Len(alts) THEN NoMatch
  ELSE LET r == MatchPattern(alts[i], v)
       IN  IF r.ok THEN r ELSE MatchOr(alts, v, i + 1)

\* A faulty variant of StarItems: the star name takes the tail elements too.
StarItemsToEnd(items, nh, nt) == ListV(Slice(items, nh + 1, Len(items)))

\* What a star name is bound to: the elements after the nh head elements and
\* before the nt tail elements, as a new list.
StarItems(items, nh, nt) == ListV(Slice(items, nh + 1, Len(items) - nt))

MatchSequence(p, v) ==
  LET nh == Len(p.head)
      nt == Len(p.tail)
      n == IF IsSequence(v) THEN Len(v.items) ELSE 0
  IN  IF ~IsSequence(v) THEN NoMatch
      ELSE IF p.rest = NoName /\ n # nh + nt THEN NoMatch
      ELSE IF p.rest # NoName /\ n < nh + nt THEN NoMatch
      ELSE LET h == MatchEach(p.head, Slice(v.items, 1, nh), 1)
               t == MatchEach(p.tail, Slice(v.items, n - nt + 1, n), 1)
               star == IF p.rest = NoName THEN NoBindings
                       ELSE Bind(p.rest, StarItems(v.items, nh, nt))
           IN  IF h.ok /\ t.ok THEN Matched(Merge(Merge(h.b, star), t.b)) ELSE NoMatch

MatchMapping(p, v) ==
  IF ~IsMapping(v) THEN NoMatch
  ELSE LET r == MatchKeys(p.required, v.m, 1)
           rest == IF p.rest = NoName THEN NoBindings
                   ELSE Bind(p.rest, DictV(RestOfMapping(v.m, p.required)))
       IN  IF r.ok THEN Matched(Merge(r.b, rest)) ELSE NoMatch

MatchRecord(p, v) ==
  IF ~(IsRecord(v) /\ v.type_tag = p.type_tag) THEN NoMatch
  ELSE MatchKeys(p.field_patterns, v.fields, 1)

MatchPattern(p, v) ==
  CASE p.tag = "Literal" -> IF PyEq(v, p.value) THEN Matched(NoBindings) ELSE NoMatch
    [] p.tag = "Wildcard" -> Matched(NoBindings)
    [] p.tag = "Capture" -> Matched(Bind(p.name, v))
    [] p.tag = "TypedCapture" ->
         IF ~IsInstance(v, p.kind) THEN NoMatch
         ELSE IF p.name = NoName THEN Matched(NoBindings)
         ELSE Matched(Bind(p.name, v))
    [] p.tag = "Sequence" -> MatchSequence(p, v)
    [] p.tag = "Mapping" -> MatchMapping(p, v)
    [] p.tag = "Record" -> MatchRecord(p, v)
    [] p.tag = "Or" -> MatchOr(p.alternatives, v, 1)
    [] p.tag = "As" ->
         LET r == MatchPattern(p.inner, v)
         IN  IF r.ok THEN Matched(Merge(r.b, Bind(p.name, v))) ELSE NoMatch

(***************************************************************************)
(* Guards.  The guard expressions of the source, by shape:                 *)
(*   name < n, name > n, name >= n   a comparison with an int literal      *)
(*   len(name) > n                                                         *)
(*   a == b                                                                *)
(*   name                            the truth value of a local            *)
(***************************************************************************)
Guard(op, a, b, n) == [op |-> op, a |-> a, b |-> b, n |-> n]
NoGuard == Guard("none", "", "", 0)

\* The guard's value over the locals: "true", "false", or "raise" when the
\* expression raises (an ordering comparison of a non-number with an int is a
\* TypeError; a name that is not bound is a NameError).
EvalGuard(g, env) ==
  CASE g.op = "none" -> "true"
    [] g.a \notin DOMAIN env -> "raise"
    [] g.op \in {"lt", "gt", "ge"} ->
         IF ~IsNumeric(env[g.a]) THEN "raise"
         ELSE IF \/ g.op = "lt" /\ Mag(env[g.a]) < 2 * g.n
                 \/ g.op = "gt" /\ Mag(env[g.a]) > 2 * g.n
                 \/ g.op = "ge" /\ Mag(env[g.a]) >= 2 * g.n
              THEN "true" ELSE "false"
    [] g.op = "len_gt" ->
         CASE IsSequence(env[g.a]) -> IF Len(env[g.a].items) > g.n THEN "true" ELSE "false"
           [] IsMapping(env[g.a]) -> IF Cardinality(DOMAIN env[g.a].m) > g.n THEN "true" ELSE "false"
           [] OTHER -> "raise"
    [] g.op = "eq" ->
         IF g.b \notin DOMAIN env THEN "raise"
         ELSE IF PyEq(env[g.a], env[g.b]) THEN "true" ELSE "false"
    [] g.op = "truthy" -> IF Truthy(env[g.a]) THEN "true" ELSE "false"

(***************************************************************************)
(* The match statements.  A case is its pattern, its guard and its body;   *)
(* a body is the label of the string it returns and the locals it reads.   *)
(***************************************************************************)
Case(p, g, label, reads) == [pattern |-> p, guard |-> g, label |-> label, reads |-> reads]

analyze_data ==
  << Case(Literal(IntV(0)), NoGuard, "Zero", {}),
     Case(Capture("x"), Guard("lt", "x", "", 0), "Negative", {"x"}),
     Case(SequenceP(<<>>, NoName, <<>>), NoGuard, "Empty list", {}),
     Case(SequenceP(<<Capture("x")>>, NoName, <<>>), NoGuard, "Single item", {"x"}),
     Case(SequenceP(<<Capture("x"), Capture("y")>>, NoName, <<>>), NoGuard, "Two items", {"x", "y"}),
     Case(SequenceP(<<Capture("x")>>, "rest", <<>>), NoGuard, "First/Rest", {"x", "rest"}),
     Case(MappingP(<<KP("type", Literal(StrV("user"))), KP("name", TypedCapture("str", "name"))>>, NoName),
          NoGuard, "User", {"name"}),
     Case(MappingP(<<KP("type", Literal(StrV("admin"))), KP("permissions", TypedCapture("list", "perms"))>>, NoName),
          NoGuard, "Admin with permissions", {"perms"}),
     Case(RecordP("Builder", <<KP("value", Capture("v"))>>), Guard("gt", "v", "", 100), "Large builder", {"v"}),
     Case(RecordP("Builder", <<KP("value", Capture("v"))>>), NoGuard, "Builder", {"v"}),
     Case(Or(<<Literal(StrV("start")), Literal(StrV("begin")), Literal(StrV("init"))>>),
          NoGuard, "Starting operation", {}),
     Case(As(MappingP(<<KP("data", TypedCapture("list", "items"))>>, NoName), "full_dict"),
          NoGuard, "Data list", {"items", "full_dict"}),
     Case(Wildcard, NoGuard, "Unknown data type", {"data"}) >>

process_value ==
  << Case(TypedCapture("str", NoName), NoGuard, "String", {"value"}),
     Case(TypedCapture("int", NoName), NoGuard, "Integer", {"value"}),
     Case(TypedCapture("float", NoName), NoGuard, "Float", {"value"}),
     Case(Wildcard, NoGuard, "Unknown type", {}) >>

UserPattern ==
  MappingP(<<KP("users",
                SequenceP(<<MappingP(<<KP("name", TypedCapture("str", "name")),
                                       KP("age", TypedCapture("int", "age"))>>, NoName)>>,
                          NoName, <<>>))>>, NoName)

complex_pattern_matching ==
  << Case(UserPattern, Guard("ge", "age", "", 18), "Adult user", {"name"}),
     Case(UserPattern, Guard("lt", "age", "", 18), "Minor user", {"name"}),
     Case(MappingP(<<KP("status", Or(<<Literal(StrV("active")), Literal(StrV("pending")),
                                       Literal(StrV("processing"))>>))>>, NoName),
          NoGuard, "System is operational", {}),
     Case(MappingP(<<KP("items", SequenceP(<<Capture("first")>>, "middle", <<Capture("last")>>))>>, NoName),
          Guard("len_gt", "middle", "", 0), "List", {"first", "middle", "last"}),
     Case(RecordP("Point", <<KP("x", Literal(IntV(0))), KP("y", Literal(IntV(0)))>>),
          NoGuard, "Origin point", {}),
     Case(RecordP("Point", <<KP("x", Capture("x")), KP("y", Capture("y"))>>),
          Guard("eq", "x", "y", 0), "Diagonal point", {"x", "y"}),
     Case(MappingP(<<KP("required", Capture("value"))>>, "rest"),
          Guard("truthy", "rest", "", 0), "Required", {"value", "rest"}),
     Case(Wildcard, NoGuard, "No pattern matched", {}) >>

Functions == {"analyze_data", "process_value", "complex_pattern_matching"}

CasesOf(fn) ==
  CASE fn = "analyze_data" -> analyze_data
    [] fn = "process_value" -> process_value
    [] fn = "complex_pattern_matching" -> complex_pattern_matching

\* The name of the function's parameter, the subject of its match statement.
ParamOf(fn) == IF fn = "process_value" THEN "value" ELSE "data"

(***************************************************************************)
(* A call of one of the functions.                                         *)
(*   index   the case being tried (the selected or raising case at the end)*)
(*   env     the function's local variables                                *)
(*   trace   the outcome of every case tried so far                        *)
(*   ret     the returned value: the label of the string and the locals    *)
(*           formatted into it                                             *)
(***************************************************************************)
NoReturn == [label |-> "", args |-> NoBindings]

IdleCall ==
  [status |-> "idle", fn |-> "", subject |-> NoneV, index |-> 0,
   env |-> NoBindings, trace |-> <<>>, ret |-> NoReturn]

NewCall(fn, v) ==
  [status |-> "running", fn |-> fn, subject |-> v, index |-> 1,
   env |-> Bind(ParamOf(fn), v), trace |-> <<>>, ret |-> NoReturn]

\* The captures of a successful match are stored in the function's locals,
\* next to what earlier cases left there.
StoreCaptures(env, b) == Merge(env, b)

\* A faulty variant of GuardVerdict: a guard that raises counts as a guard that rejects.
GuardVerdictSwallow(k, env) == IF EvalGuard(k.guard, env) = "raise" THEN "false" ELSE EvalGuard(k.guard, env)

\* The verdict of a case's guard over the locals.
GuardVerdict(k, env) == EvalGuard(k.guard, env)

\* The value a case's body returns: its label and the locals it formats.
BodyResult(k, env) == [label |-> k.label, args |-> [n \in k.reads |-> env[n]]]

\* A faulty variant of AfterRejection: the captures of a rejected case are rolled back.
AfterRejectionScoped(c, env2) == [c EXCEPT !.index = @ + 1, !.trace = Append(@, "rejected")]

\* The guard rejected: the scan goes on with the next case, and the locals
\* keep what the rejected case's pattern captured.
AfterRejection(c, env2) == [c EXCEPT !.index = @ + 1, !.env = env2, !.trace = Append(@, "rejected")]

\* One case of the match statement: the pattern is matched against the
\* subject; on success the captures are stored in the locals, then the guard
\* is evaluated over the locals; the body runs when it is absent or true.
\* After the last case the function falls off its end and returns None.
Advance(c) ==
  LET cases == CasesOf(c.fn)
  IN  IF c.index > Len(cases)
      THEN [c EXCEPT !.status = "returned", !.ret = [label |-> "None", args |-> NoBindings]]
      ELSE
        LET k == cases[c.index]
            r == MatchPattern(k.pattern, c.subject)
            env2 == StoreCaptures(c.env, r.b)
            g == GuardVerdict(k, env2)
        IN  IF ~r.ok
            THEN [c EXCEPT !.index = @ + 1, !.trace = Append(@, "nomatch")]
            ELSE IF g = "raise" \/ (g = "true" /\ ~(k.reads \subseteq DOMAIN env2))
            THEN [c EXCEPT !.status = "raised", !.env = env2, !.trace = Append(@, "raised")]
            ELSE IF g = "false"
            THEN AfterRejection(c, env2)
            ELSE [c EXCEPT !.status = "returned", !.env = env2, !.trace = Append(@, "selected"),
                           !.ret = BodyResult(k, env2)]

(***************************************************************************)
(* Subjects.  The values the callers pass: the literals of main's          *)
(* test_data and of the test_cases list, and values of the same shapes     *)
(* around them.                                                            *)
(***************************************************************************)
\* The int literals of the source's subjects and guards.
SourceInts == {42, -5, 150, 25, 16, 3, 100, 18, 0}

Ints == SourceInts \cup {b + d : b \in {0, 18, 100}, d \in (-MaxInt)..MaxInt}

Strings ==
  {"start", "begin", "init", "user", "admin", "Alice", "Bob", "active", "pending",
   "processing", "unmatched", "value", "a", "b", "info", "read", "write", "hello", ""}

Scalars ==
  {IntV(n) : n \in Ints} \cup {FloatV(h) : h \in (-2 * MaxInt)..(2 * MaxInt)}
    \cup {BoolV(b) : b \in BOOLEAN} \cup {StrV(s) : s \in Strings} \cup {NoneV}

SeqsUpTo(S, n) == UNION {[1..k -> S] : k \in 0..n}

\* Functions from a subset of the keys K to the values V.
MapsOver(K, V) == UNION {[D -> V] : D \in SUBSET K}

ListElems == {IntV(1), IntV(2), StrV("read")}

Lists ==
  {ListV(s) : s \in SeqsUpTo(ListElems, MaxLen)}
    \cup {ListV(<<IntV(1), IntV(2), IntV(3), IntV(4)>>),
          ListV(<<IntV(1), IntV(2), IntV(3), IntV(4), IntV(5)>>),
          ListV(<<StrV("read"), StrV("write")>>)}

UserDicts ==
  {DictV(m) : m \in MapsOver({"name", "age"},
                             {StrV("Alice"), IntV(16), IntV(18), IntV(25), BoolV(TRUE), FloatV(1)})}

Dicts ==
  {DictV(m) : m \in MapsOver({"type", "name", "permissions"},
                             {StrV("user"), StrV("admin"), StrV("Alice"), IntV(1),
                              ListV(<<StrV("read"), StrV("write")>>)})}
    \cup {DictV(m) : m \in MapsOver({"data", "meta"}, {ListV(<<IntV(1), IntV(2), IntV(3)>>), StrV("info")})}
    \cup {DictV(m) : m \in MapsOver({"status", "meta"}, {StrV("active"), StrV("pending"),
                                                         StrV("processing"), StrV("unmatched"), IntV(0)})}
    \cup {DictV(m) : m \in MapsOver({"required", "optional1", "optional2"},
                                    {StrV("value"), StrV("a"), StrV("b"), IntV(0)})}
    \cup {DictV([k \in {"items"} |-> v]) : v \in Lists \cup {StrV("a"), IntV(0)}}
    \cup {DictV([k \in {"users"} |-> v]) :
            v \in {ListV(s) : s \in SeqsUpTo(UserDicts, 1)}
                  \cup {ListV(<<d, d>>) : d \in UserDicts} \cup {StrV("a")}}

PointFields == {IntV(0), FloatV(0), BoolV(FALSE), IntV(1), FloatV(2), BoolV(TRUE), FloatV(1), IntV(3), StrV("a"), NoneV}

Records ==
  {Builder(v) : v \in Scalars \cup {ListV(<<>>)}}
    \cup {Point(a, b) : a \in PointFields, b \in PointFields}

Subjects == Scalars \cup Lists \cup Dicts \cup Records

\* main's test_data, in order.
test_data ==
  << IntV(42), IntV(-5), ListV(<<>>), ListV(<<IntV(1)>>), ListV(<<IntV(1), IntV(2)>>),
     ListV(<<IntV(1), IntV(2), IntV(3), IntV(4)>>),
     DictV([k \in {"type", "name"} |-> IF k = "type" THEN StrV("user") ELSE StrV("Alice")]),
     DictV([k \in {"type", "permissions"} |->
              IF k = "type" THEN StrV("admin") ELSE ListV(<<StrV("read"), StrV("write")>>)]),
     Builder(IntV(150)),
     StrV("start"),
     DictV([k \in {"data", "meta"} |->
              IF k = "data" THEN ListV(<<IntV(1), IntV(2), IntV(3)>>) ELSE StrV("info")]) >>

(***************************************************************************)
(* The sequential program: one call at a time, as in main's loops.         *)
(***************************************************************************)
Invoke ==
  /\ call.status = "idle"
  /\ \E fn \in Functions, v \in Subjects : call' = NewCall(fn, v)
  /\ UNCHANGED <<threads, probe>>

Step ==
  /\ call.status = "running"
  /\ call' = Advance(call)
  /\ UNCHANGED <<threads, probe>>

\* The caller consumes the result (or the exception) and the frame is gone.
Finish ==
  /\ call.status \in {"returned", "raised"}
  /\ call' = IdleCall
  /\ UNCHANGED <<threads, probe>>

(***************************************************************************)
(* Concurrent callers: every thread runs its own call of analyze_data on a *)
(* subject of main's test_data, one case per step, the steps of the        *)
(* threads interleaved; a thread may repeat its call with the same         *)
(* argument.  prev is the outcome of the thread's first call.              *)
(***************************************************************************)
Outcome(c) == [status |-> c.status, index |-> c.index, ret |-> c.ret, env |-> c.env]

NoOutcome == [status |-> "none", index |-> 0, ret |-> NoReturn, env |-> NoBindings]

IdleThread == [call |-> IdleCall, prev |-> NoOutcome]

\* A faulty variant of ThreadsAfterStep: one scan cursor shared by the running calls.
ThreadsAfterStepSharedCursor(ths, t) ==
  [u \in DOMAIN ths |->
     IF u = t THEN [ths[u] EXCEPT !.call = Advance(@)]
     ELSE IF ths[u].call.status = "running"
     THEN [ths[u] EXCEPT !.call.index = Advance(ths[t].call).index]
     ELSE ths[u]]

\* A step of thread t changes the frame of t's call and nothing else.
ThreadsAfterStep(ths, t) == [ths EXCEPT ![t].call = Advance(@)]

ThreadInvoke(t, v) ==
  /\ threads[t].call.status = "idle"
  /\ threads' = [threads EXCEPT ![t].call = NewCall("analyze_data", v)]
  /\ UNCHANGED <<call, probe>>

ThreadStep(t) ==
  /\ threads[t].call.status = "running"
  /\ threads' = ThreadsAfterStep(threads, t)
  /\ UNCHANGED <<call, probe>>

ThreadRepeat(t) ==
  /\ threads[t].call.status \in {"returned", "raised"}
  /\ threads[t].prev = NoOutcome
  /\ threads' = [threads EXCEPT ![t].prev = Outcome(threads[t].call),
                                ![t].call = NewCall(threads[t].call.fn, threads[t].call.subject)]
  /\ UNCHANGED <<call, probe>>

(***************************************************************************)
(* The matcher on its own: a pattern tree is constructed, then matched     *)
(* against a value.                                                        *)
(***************************************************************************)
RECURSIVE Names(_)
RECURSIVE NamesOfEach(_, _)
\* The names the patterns ps[i..] bind.
NamesOfEach(ps, i) == IF i > Len(ps) THEN {} ELSE Names(ps[i]) \cup NamesOfEach(ps, i + 1)

\* The names a pattern binds (for an Or: those of its first alternative).
Names(p) ==
  CASE p.tag \in {"Literal", "Wildcard"} -> {}
    [] p.tag = "Capture" -> {p.name}
    [] p.tag = "TypedCapture" -> {p.name} \ {NoName}
    [] p.tag = "Sequence" -> NamesOfEach(p.head, 1) \cup ({p.rest} \ {NoName}) \cup NamesOfEach(p.tail, 1)
    [] p.tag = "Mapping" ->
         NamesOfEach([j \in 1..Len(p.required) |-> p.required[j].pat], 1) \cup ({p.rest} \ {NoName})
    [] p.tag = "Record" -> NamesOfEach([j \in 1..Len(p.field_patterns) |-> p.field_patterns[j].pat], 1)
    [] p.tag = "Or" -> IF Len(p.alternatives) = 0 THEN {} ELSE Names(p.alternatives[1])
    [] p.tag = "As" -> Names(p.inner) \cup {p.name}

ConstructionError == [tag |-> "ConstructionError"]

\* Constructing an Or: its alternatives must all bind the same names.
MakeOr(alts) ==
  IF \A i, j \in 1..Len(alts) : Names(alts[i]) = Names(alts[j])
  THEN Or(alts) ELSE ConstructionError

\* The sequence patterns of the source, and the sequence patterns of up to
\* MaxPats head and tail sub-patterns each.
HeadNames == <<"x", "y", "z", "w">>
TailNames == <<"last", "t2", "t3", "t4">>

LeafShapes == UNION {[1..k -> {"capture", "literal"}] : k \in 0..MaxPats}

LeafPatterns(names, shape) ==
  [i \in 1..Len(shape) |-> IF shape[i] = "capture" THEN Capture(names[i]) ELSE Literal(IntV(1))]

SequencePatterns ==
  {SequenceP(LeafPatterns(HeadNames, h), NoName, <<>>) :
     h \in LeafShapes}
    \cup {SequenceP(LeafPatterns(HeadNames, h), "rest", LeafPatterns(TailNames, t)) :
            h \in LeafShapes, t \in LeafShapes}
    \cup {SequenceP(<<Capture("first")>>, "middle", <<Capture("last")>>)}

\* The alternatives Or patterns are constructed from.
Alternatives ==
  {Literal(IntV(0)), Literal(StrV("start")), Literal(StrV("begin")), Capture("x"),
   SequenceP(<<Capture("x")>>, NoName, <<>>), As(Literal(IntV(0)), "x")}

AlternativeLists ==
  UNION {[1..k -> Alternatives] : k \in 1..2}
    \cup {<<Literal(StrV("start")), Literal(StrV("begin")), Literal(StrV("init"))>>,
          <<Literal(StrV("active")), Literal(StrV("pending")), Literal(StrV("processing"))>>}

\* The patterns of the case statements themselves.
CasePatterns ==
  UNION {{CasesOf(fn)[i].pattern : i \in 1..Len(CasesOf(fn))} : fn \in Functions}

ProbeValues ==
  Lists \cup {IntV(0), IntV(1), FloatV(0), BoolV(FALSE), StrV("start"), StrV("begin"), StrV("a"),
              NoneV, DictV(EmptyMap), Builder(IntV(1)), ListV(<<IntV(0)>>)}

IdleProbe == [status |-> "idle", pattern |-> Wildcard, value |-> NoneV, result |-> NoMatch]

\* A pattern that needs no check to construct, posed against a value.
Pose ==
  /\ probe.status = "idle"
  /\ \E p \in SequencePatterns \cup CasePatterns, v \in ProbeValues :
       probe' = [IdleProbe EXCEPT !.status = "posed", !.pattern = p, !.value = v]
  /\ UNCHANGED <<call, threads>>

\* An Or pattern is constructed from its alternatives, which may fail.
PoseOr ==
  /\ probe.status = "idle"
  /\ \E alts \in AlternativeLists, v \in ProbeValues :
       probe' = IF MakeOr(alts) = ConstructionError
                THEN [IdleProbe EXCEPT !.status = "construction_error", !.pattern = Or(alts), !.value = v]
                ELSE [IdleProbe EXCEPT !.status = "posed", !.pattern = MakeOr(alts), !.value = v]
  /\ UNCHANGED <<call, threads>>

ApplyMatch ==
  /\ probe.status = "posed"
  /\ probe' = [probe EXCEPT !.status = "done", !.result = MatchPattern(probe.pattern, probe.value)]
  /\ UNCHANGED <<call, threads>>

Discard ==
  /\ probe.status \in {"done", "construction_error"}
  /\ probe' = IdleProbe
  /\ UNCHANGED <<call, threads>>

Init ==
  /\ call = IdleCall
  /\ threads = [t \in 1..NumThreads |-> IdleThread]
  /\ probe = IdleProbe

Next ==
  \/ Invoke
  \/ Step
  \/ Finish

Spec == Init /\ [][Next]_vars

NextConc ==
  \/ \E t \in 1..NumThreads, i \in 1..Len(test_data) : ThreadInvoke(t, test_data[i])
  \/ \E t \in 1..NumThreads : ThreadStep(t)
  \/ \E t \in 1..NumThreads : ThreadRepeat(t)

SpecConc == Init /\ [][NextConc]_vars

NextMatch ==
  \/ Pose
  \/ PoseOr
  \/ ApplyMatch
  \/ Discard

SpecMatch == Init /\ [][NextMatch]_vars


(***************************************************************************)
(* What the claims speak of, stated over a call's inputs alone: the match  *)
(* of the i-th case's own pattern and the verdict of its own guard over    *)
(* the parameter and that match's bindings.                                *)
(***************************************************************************)
OwnMatch(fn, v, i) == MatchPattern(CasesOf(fn)[i].pattern, v)

OwnGuard(fn, v, i) == EvalGuard(CasesOf(fn)[i].guard, Merge(Bind(ParamOf(fn), v), OwnMatch(fn, v, i).b))

Qualifies(fn, v, i) == OwnMatch(fn, v, i).ok /\ OwnGuard(fn, v, i) = "true"

GuardFails(fn, v, i) == OwnMatch(fn, v, i).ok /\ OwnGuard(fn, v, i) = "raise"

\* Every guard the call could evaluate returns a boolean.
GuardsReturnBool(fn, v) == \A i \in 1..Len(CasesOf(fn)) : ~GuardFails(fn, v, i)

Ended(c) == c.status \in {"returned", "raised"}

IsSmallBuilder(v) ==
  /\ IsRecord(v) /\ v.type_tag = "Builder"
  /\ IsScalar(v.fields["value"]) /\ v.fields["value"].kind = "int"
  /\ v.fields["value"].num <= 100

\* The case statements the claims name, by position in their match statement.
CaseNegative == 2
CaseBuilder == 10
CaseOriginPoint == 5
CaseDiagonalPoint == 6
CaseRequiredRest == 7

(***************************************************************************)
(* C1.  A call selects case i exactly when i is the smallest index whose   *)
(* pattern matches the subject and whose guard is absent or accepts; a     *)
(* guard rejection does not stop the scan; it falls off the end exactly    *)
(* when no index qualifies.  In particular Builder(v) with v <= 100        *)
(* selects the unguarded Builder case of analyze_data, and Point(0, 0)     *)
(* selects 'Origin point' though the later x == y case qualifies too.      *)
(***************************************************************************)
C1_FirstQualifyingCaseWins ==
  /\ (Ended(call) /\ GuardsReturnBool(call.fn, call.subject)) =>
       /\ call.status = "returned"
       /\ \/ /\ call.ret.label # "None"
             /\ Qualifies(call.fn, call.subject, call.index)
             /\ \A j \in 1..(call.index - 1) : ~Qualifies(call.fn, call.subject, j)
          \/ /\ call.ret.label = "None"
             /\ \A j \in 1..Len(CasesOf(call.fn)) : ~Qualifies(call.fn, call.subject, j)
  /\ (Ended(call) /\ call.fn = "analyze_data" /\ IsSmallBuilder(call.subject)) =>
       (call.status = "returned" /\ call.index = CaseBuilder)
  /\ (Ended(call) /\ call.fn = "complex_pattern_matching"
        /\ call.subject = Point(IntV(0), IntV(0))) =>
       /\ call.status = "returned" /\ call.index = CaseOriginPoint
       /\ Qualifies(call.fn, call.subject, CaseDiagonalPoint)

\* The part of C1 that needs no guard of analyze_data to succeed on a Builder.
C1_General ==
  (Ended(call) /\ GuardsReturnBool(call.fn, call.subject)) =>
       /\ call.status = "returned"
       /\ call.ret.label # "None"
       /\ Qualifies(call.fn, call.subject, call.index)
       /\ \A j \in 1..(call.index - 1) : ~Qualifies(call.fn, call.subject, j)

(***************************************************************************)
(* C2.  When the guard of a structurally matched case fails to evaluate,   *)
(* the call ends with that failure at that case: the failure is not taken  *)
(* for a rejection, no later case is tried and nothing is returned.        *)
(***************************************************************************)
C2_GuardFailurePropagates ==
  /\ call.status = "raised" =>
       /\ GuardFails(call.fn, call.subject, call.index)
       /\ call.ret = NoReturn
       /\ Len(call.trace) = call.index
       /\ call.trace[call.index] = "raised"
  /\ \A i \in 1..Len(call.trace) :
       GuardFails(call.fn, call.subject, i) =>
         /\ call.status = "raised"
         /\ call.index = i
         /\ call.trace[i] = "raised"

C2_Witness ==
  /\ call.status = "raised"
  /\ call.fn = "analyze_data"
  /\ call.index = CaseNegative
  /\ IsSequence(call.subject)

(***************************************************************************)
(* C3.  For every subject of main's test_data, analyze_data returns the    *)
(* result string of the case written for that subject's shape.             *)
(***************************************************************************)
ExpectedLabel ==
  << "Unknown data type", "Negative", "Empty list", "Single item", "Two items", "First/Rest",
     "User", "Admin with permissions", "Large builder", "Starting operation", "Data list" >>

C3_TestDataResults ==
  \A i \in 1..Len(test_data) :
    (Ended(call) /\ call.fn = "analyze_data" /\ call.subject = test_data[i]) =>
      (call.status = "returned" /\ call.ret.label = ExpectedLabel[i])

(***************************************************************************)
(* C5.  A Mapping pattern matches a mapping m iff m holds every required   *)
(* key and each required sub-pattern matches the value at its key; other   *)
(* keys never prevent the match.  A rest-capture is bound to a new mapping *)
(* of exactly the pairs of m outside the required keys, and m is left as   *)
(* it was.  So {'required': v} alone matches {'required': value, **rest}   *)
(* with rest = {}, the guard 'if rest' rejects and the scan continues.     *)
(***************************************************************************)
RequiredKeys(p) == {p.required[j].key : j \in 1..Len(p.required)}

RequiredAllMatch(p, v) ==
  /\ IsMapping(v)
  /\ \A j \in 1..Len(p.required) :
       /\ p.required[j].key \in DOMAIN v.m
       /\ MatchPattern(p.required[j].pat, v.m[p.required[j].key]).ok

OnlyRequiredKey(v) == IsMapping(v) /\ DOMAIN v.m = {"required"}

C5_MappingRequiredAndRest ==
  /\ \A i \in 1..Len(call.trace) :
       LET p == CasesOf(call.fn)[i].pattern
       IN  p.tag = "Mapping" =>
             /\ (call.trace[i] # "nomatch") <=> RequiredAllMatch(p, call.subject)
             /\ (p.rest # NoName /\ call.trace[i] # "nomatch" /\ i = Len(call.trace)) =>
                  /\ p.rest \in DOMAIN call.env
                  /\ IsMapping(call.env[p.rest])
                  /\ DOMAIN call.env[p.rest].m = (DOMAIN call.subject.m) \ RequiredKeys(p)
                  /\ \A k \in DOMAIN call.env[p.rest].m : call.env[p.rest].m[k] = call.subject.m[k]
  /\ call.status # "idle" => call.env[ParamOf(call.fn)] = call.subject
  /\ (call.fn = "complex_pattern_matching" /\ OnlyRequiredKey(call.subject)
        /\ Len(call.trace) >= CaseRequiredRest) =>
       /\ call.trace[CaseRequiredRest] = "rejected"
       /\ call.env["rest"] = DictV(EmptyMap)
       /\ call.index > CaseRequiredRest

C5_Witness ==
  /\ call.fn = "complex_pattern_matching"
  /\ OnlyRequiredKey(call.subject)
  /\ call.status = "returned"
  /\ call.index = Len(complex_pattern_matching)
  /\ call.trace[CaseRequiredRest] = "rejected"

(***************************************************************************)
(* C7.  As claimed: a Literal(L) pattern matches a scalar v iff v has the  *)
(* kind and payload of L, or one is an int and the other a float of equal  *)
(* magnitude; so 'case 0' and 'Point(x=0, y=0)' select for 0 and 0.0 and   *)
(* for no bool, string or None.                                            *)
(***************************************************************************)
ClaimedLiteralEq(v, L) ==
  /\ IsScalar(v)
  /\ \/ v.kind = L.kind /\ v.num = L.num /\ v.str = L.str
     \/ {v.kind, L.kind} = {"int", "float"} /\ Mag(v) = Mag(L)

IsPoint(v) == IsRecord(v) /\ v.type_tag = "Point"

C7_LiteralKindAndPayload ==
  /\ (call.fn = "analyze_data" /\ Len(call.trace) >= 1) =>
       (call.trace[1] = "selected" <=> ClaimedLiteralEq(call.subject, IntV(0)))
  /\ (call.fn = "complex_pattern_matching" /\ Len(call.trace) >= CaseOriginPoint) =>
       (call.trace[CaseOriginPoint] = "selected" <=>
          /\ IsPoint(call.subject)
          /\ ClaimedLiteralEq(call.subject.fields["x"], IntV(0))
          /\ ClaimedLiteralEq(call.subject.fields["y"], IntV(0)))

(***************************************************************************)
(* C7, amended.  A Literal(L) pattern matches v iff v == L: v and L are    *)
(* both numbers (int, float or bool, False being 0 and True 1) of equal    *)
(* magnitude, or both strings, or both None, of equal payload.  So         *)
(* 'case 0' and 'Point(x=0, y=0)' select for 0, 0.0 and False, and for no  *)
(* string or None.                                                         *)
(***************************************************************************)
NumberKinds == {"int", "float", "bool"}

EqualsLiteral(v, L) ==
  /\ IsScalar(v)
  /\ \/ v.kind \in NumberKinds /\ L.kind \in NumberKinds /\ Mag(v) = Mag(L)
     \/ v.kind \notin NumberKinds /\ v.kind = L.kind /\ v.str = L.str

C7_LiteralEquality ==
  /\ (call.fn = "analyze_data" /\ Len(call.trace) >= 1) =>
       (call.trace[1] = "selected" <=> EqualsLiteral(call.subject, IntV(0)))
  /\ (call.fn = "complex_pattern_matching" /\ Len(call.trace) >= CaseOriginPoint) =>
       (call.trace[CaseOriginPoint] = "selected" <=>
          /\ IsPoint(call.subject)
          /\ EqualsLiteral(call.subject.fields["x"], IntV(0))
          /\ EqualsLiteral(call.subject.fields["y"], IntV(0)))

C7_Witness ==
  /\ call.fn = "analyze_data"
  /\ call.subject = BoolV(FALSE)
  /\ call.status = "returned"
  /\ call.ret.label = "Zero"

(***************************************************************************)
(* C8.  As claimed: a TypedCapture(k, n) matches a value iff its runtime   *)
(* kind is k: in process_value a bool selects none of str(), int(),        *)
(* float() and returns 'Unknown type', an int never selects float(), and   *)
(* int(age) does not match a bool age.                                     *)
(***************************************************************************)
\* {"users": [{"name": <a str>, "age": <anything>, ...}]}
IsSingleUser(v) ==
  /\ IsMapping(v) /\ "users" \in DOMAIN v.m
  /\ IsSequence(v.m["users"]) /\ Len(v.m["users"].items) = 1
  /\ IsMapping(v.m["users"].items[1])
  /\ {"name", "age"} \subseteq DOMAIN v.m["users"].items[1].m
  /\ KindOf(v.m["users"].items[1].m["name"]) = "str"

AgeOf(v) == v.m["users"].items[1].m["age"]

C8_TypedCaptureExactKind ==
  /\ (call.fn = "process_value" /\ call.status = "returned") =>
       /\ call.index = 1 <=> KindOf(call.subject) = "str"
       /\ call.index = 2 <=> KindOf(call.subject) = "int"
       /\ call.index = 3 <=> KindOf(call.subject) = "float"
       /\ KindOf(call.subject) = "bool" => call.ret.label = "Unknown type"
  /\ (call.fn = "complex_pattern_matching" /\ Len(call.trace) >= 1 /\ IsSingleUser(call.subject)) =>
       (call.trace[1] # "nomatch" <=> KindOf(AgeOf(call.subject)) = "int")

(***************************************************************************)
(* C8, amended.  A TypedCapture(k, n) matches a value iff the value is an  *)
(* instance of k: its runtime kind is k, or k is int and the value is a    *)
(* bool.  In process_value a bool selects the int() case and returns       *)
(* 'Integer', an int never selects float(), and int(age) matches a bool    *)
(* age.                                                                    *)
(***************************************************************************)
C8_TypedCaptureIsInstance ==
  /\ (call.fn = "process_value" /\ call.status = "returned") =>
       /\ call.index = 1 <=> KindOf(call.subject) = "str"
       /\ call.index = 2 <=> KindOf(call.subject) \in {"int", "bool"}
       /\ call.index = 3 <=> KindOf(call.subject) = "float"
       /\ KindOf(call.subject) = "bool" => call.ret.label = "Integer"
  /\ (call.fn = "complex_pattern_matching" /\ Len(call.trace) >= 1 /\ IsSingleUser(call.subject)) =>
       (call.trace[1] # "nomatch" <=> KindOf(AgeOf(call.subject)) \in {"int", "bool"})

C8_Witness ==
  /\ call.fn = "process_value"
  /\ call.subject = BoolV(TRUE)
  /\ call.status = "returned"
  /\ call.ret.label = "Integer"

(***************************************************************************)
(* C10.  As claimed: the bindings delivered with a selected case are       *)
(* exactly those of matching its own pattern (next to the parameter);      *)
(* names bound by an earlier case that matched but was rejected by its     *)
(* guard are not visible.                                                  *)
(***************************************************************************)
C10_OnlyOwnBindingsVisible ==
  call.status = "returned" =>
    call.env = Merge(Bind(ParamOf(call.fn), call.subject),
                     OwnMatch(call.fn, call.subject, call.index).b)

(***************************************************************************)
(* C10, amended.  Every name the selected case's pattern binds has, in the *)
(* locals the body runs in, the value that matching that pattern gives it, *)
(* and the body formats only such names and the parameter.  The locals     *)
(* also keep the names bound by every earlier case that structurally       *)
(* matched but was rejected by its guard (x of 'case x if x < 0' is still  *)
(* bound in 'case _'); a case whose pattern failed, even after a partial   *)
(* match, leaves no name behind.                                           *)
(***************************************************************************)
MatchedCases(c) == {i \in 1..Len(c.trace) : c.trace[i] # "nomatch"}

C10_OwnBindingsDeliveredOthersLeak ==
  /\ call.status # "idle" =>
       DOMAIN call.env =
         {ParamOf(call.fn)}
           \cup UNION {DOMAIN OwnMatch(call.fn, call.subject, i).b : i \in MatchedCases(call)}
  /\ call.status = "returned" =>
       LET own == OwnMatch(call.fn, call.subject, call.index).b
       IN  /\ \A n \in DOMAIN own : call.env[n] = own[n]
           /\ \A n \in DOMAIN call.ret.args :
                IF n \in DOMAIN own THEN call.ret.args[n] = own[n]
                ELSE n = ParamOf(call.fn) /\ call.ret.args[n] = call.subject

C10_Witness ==
  /\ call.fn = "analyze_data"
  /\ call.status = "returned"
  /\ call.index = Len(analyze_data)
  /\ call.trace[CaseNegative] = "rejected"
  /\ "x" \in DOMAIN call.env
  /\ call.env["x"] = call.subject

(***************************************************************************)
(* C4.  A Sequence pattern with head H and tail T matches a sequence s     *)
(* only if length(s) = |H| + |T| (no rest-capture) or length(s) >= |H| +   *)
(* |T| (rest-capture); the rest name is then bound to exactly the elements *)
(* of s at positions |H| .. length(s) - |T| - 1 in order (possibly none),  *)
(* so that the head elements, the rest binding and the tail elements       *)
(* reproduce s.  A value that is no sequence never matches.  When H and T  *)
(* hold captures only, the length condition is also sufficient.            *)
(***************************************************************************)
\* The value matched at a position: what the capture there is bound to, or
\* the element itself under a literal.
MatchedAt(q, b, elem) == IF q.tag = "Capture" THEN b[q.name] ELSE elem

AllCaptures(ps) == \A i \in 1..Len(ps) : ps[i].tag = "Capture"

C4_SequenceLengthAndRest ==
  (probe.status = "done" /\ probe.pattern.tag = "Sequence") =>
    LET pat == probe.pattern
        v == probe.value
        r == probe.result
        nh == Len(pat.head)
        nt == Len(pat.tail)
    IN  /\ ~IsSequence(v) => ~r.ok
        /\ (IsSequence(v) /\ r.ok) =>
             LET n == Len(v.items)
                 heads == [i \in 1..nh |-> MatchedAt(pat.head[i], r.b, v.items[i])]
                 tails == [i \in 1..nt |-> MatchedAt(pat.tail[i], r.b, v.items[n - nt + i])]
                 rest == IF pat.rest = NoName THEN <<>> ELSE r.b[pat.rest].items
             IN  /\ pat.rest = NoName => n = nh + nt
                 /\ pat.rest # NoName =>
                      /\ n >= nh + nt
                      /\ IsSequence(r.b[pat.rest])
                      /\ Len(rest) = n - nh - nt
                      /\ \A i \in 1..Len(rest) : rest[i] = v.items[nh + i]
                 /\ heads \o rest \o tails = v.items
        /\ (IsSequence(v) /\ AllCaptures(pat.head) /\ AllCaptures(pat.tail)) =>
             (r.ok <=> IF pat.rest = NoName THEN Len(v.items) = nh + nt ELSE Len(v.items) >= nh + nt)

C4_Witness ==
  /\ probe.status = "done"
  /\ probe.pattern = SequenceP(<<Capture("first")>>, "middle", <<Capture("last")>>)
  /\ probe.value = ListV(<<IntV(1), IntV(2), IntV(3), IntV(4)>>)
  /\ probe.result.ok
  /\ probe.result.b["middle"] = ListV(<<IntV(2), IntV(3)>>)

(***************************************************************************)
(* C6.  Constructing an Or whose alternatives do not all bind the same     *)
(* names fails with ConstructionError; so whenever a constructed pattern   *)
(* matches, the names bound are exactly the names the pattern declares,    *)
(* whichever alternative fired; an Or tries its alternatives in listed     *)
(* order and returns the match of the first that matches.                  *)
(***************************************************************************)
SameNames(alts) == \A i, j \in 1..Len(alts) : Names(alts[i]) = Names(alts[j])

C6_OrUniformBindings ==
  /\ probe.status = "construction_error" =>
       (probe.pattern.tag = "Or" /\ ~SameNames(probe.pattern.alternatives))
  /\ (probe.status \in {"posed", "done"} /\ probe.pattern.tag = "Or") =>
       SameNames(probe.pattern.alternatives)
  /\ (probe.status = "done" /\ probe.result.ok) =>
       DOMAIN probe.result.b = Names(probe.pattern)
  /\ (probe.status = "done" /\ probe.pattern.tag = "Or") =>
       LET alts == probe.pattern.alternatives
           hits == {i \in 1..Len(alts) : MatchPattern(alts[i], probe.value).ok}
       IN  IF hits = {} THEN ~probe.result.ok
           ELSE \E i \in hits :
                  /\ \A j \in hits : i <= j
                  /\ probe.result = MatchPattern(alts[i], probe.value)

C6_Witness ==
  /\ probe.status = "done"
  /\ probe.pattern = Or(<<SequenceP(<<Capture("x")>>, NoName, <<>>), Capture("x")>>)
  /\ probe.value = ListV(<<IntV(0)>>)
  /\ probe.result = Matched(Bind("x", IntV(0)))

(***************************************************************************)
(* C9.  Calls keep no state between them: with the steps of several calls  *)
(* interleaved in any order, every call ends at the case, with the status  *)
(* and the result, that its subject alone determines, and a call repeated  *)
(* with the same argument ends exactly as it did the first time.           *)
(***************************************************************************)
TestSubjects == {test_data[i] : i \in 1..Len(test_data)}

\* The first case of analyze_data whose pattern matches v and whose guard
\* does not reject.
FirstStop(v) ==
  CHOOSE i \in 1..Len(analyze_data) :
    /\ OwnMatch("analyze_data", v, i).ok /\ OwnGuard("analyze_data", v, i) # "false"
    /\ \A j \in 1..(i - 1) :
         ~(OwnMatch("analyze_data", v, j).ok /\ OwnGuard("analyze_data", v, j) # "false")

AloneOutcome ==
  [v \in TestSubjects |->
     [index |-> FirstStop(v),
      status |-> IF OwnGuard("analyze_data", v, FirstStop(v)) = "true" THEN "returned" ELSE "raised",
      label |-> IF OwnGuard("analyze_data", v, FirstStop(v)) = "true"
                THEN analyze_data[FirstStop(v)].label ELSE ""]]

C9_CallsDoNotInterfere ==
  \A t \in 1..NumThreads :
    LET c == threads[t].call
        prev == threads[t].prev
    IN  /\ c.status = "running" =>
             (c.index <= AloneOutcome[c.subject].index /\ Len(c.trace) = c.index - 1)
        /\ Ended(c) =>
             /\ c.index = AloneOutcome[c.subject].index
             /\ c.status = AloneOutcome[c.subject].status
             /\ c.ret.label = AloneOutcome[c.subject].label
             /\ \A n \in DOMAIN c.ret.args : c.ret.args[n] = c.env[n]
             /\ c.env[ParamOf(c.fn)] = c.subject
        /\ (Ended(c) /\ prev # NoOutcome) => Outcome(c) = prev

C9_Witness ==
  /\ threads[1].call.status = "running"
  /\ threads[1].call.index > CaseNegative
  /\ Ended(threads[2].call)
  /\ threads[2].prev # NoOutcome
  /\ threads[2].call.subject # threads[1].call.subject

====
